---- MODULE Spec2Model ----
(***************************************************************************)
(* pallet-crowdfund: the Fund Registry (Funds, FundCount), the per-fund    *)
(* Contribution Ledger (child tries) and the dispatchables create and      *)
(* contribute, over a Currency that holds the free balance of every        *)
(* account.  One action is one dispatched call, or one new block.          *)
(***************************************************************************)
EXTENDS Integers, Sequences, FiniteSets, TLC

(* ------------------------------ bounds -------------------------------- *)
\* free balance every signing account holds at genesis
GenesisBalance == 4
\* create is dispatched only while FundCount is below this cap
MaxFunds == 2
\* largest block number the chain reaches
MaxBlock == 2
\* largest `end` a create call is given
MaxEnd == 2
\* largest `goal` a create call is given
MaxGoal == 4
\* largest value of the (generic) Balance type
MaxBalance == 15

(* --------------------------- configuration ---------------------------- *)
\* T::SubmissionDeposit
SubmissionDeposit == 2
\* T::MinContribution
MinContribution == 2
\* T::RetirementPeriod
RetirementPeriod == 1

(* ------------------------------- types -------------------------------- *)
\* AccountIds that can sign
Users == {<<"user", 1>>, <<"user", 2>>}

\* fund indices a call may name; MaxFunds itself is never allocated
FundIndex == 0..MaxFunds

\* one pot for every fund: the index left out of the derivation
fund_account_id_shared(index) == <<"ex/cfund", 0>>

\* PALLET_ID.into_sub_account(index)
fund_account_id(index) == <<"ex/cfund", index>>

AccountIds == Users \cup {fund_account_id(i) : i \in FundIndex}

\* frame_system RawOrigin: a signed origin carries the signer
Origins == {[kind |-> "Signed", who |-> u] : u \in Users}
           \cup {[kind |-> "None", who |-> <<"user", 0>>]}

\* the accounts a create call names as beneficiary
Beneficiaries == {<<"user", 2>>}

\* the goals a create call names: met by any contribution, and harder to meet
Goals == {1, MaxGoal}

\* values a contribute call is given: below, at and above the minimum
Values == {MinContribution - 1, MinContribution, MinContribution + 1}

VARIABLES
    now,            \* frame_system block_number()
    balances,       \* Currency: free balance of every account
    funds,          \* Funds: StorageMap FundIndex -> FundInfo (OptionQuery)
    fund_count,     \* FundCount: StorageValue (ValueQuery, default 0)
    contributions,  \* child tries: <<id_from_index(index), who>> -> stored bytes
    events,         \* events deposited in the current block, oldest first
    called,         \* the call dispatched last in this block
    result          \* its DispatchResult

vars == <<now, balances, funds, fund_count, contributions, events, called, result>>

\* the storage and the event log: what a call can change
storage == <<balances, funds, fund_count, contributions, events>>

(* ----------------------------- arithmetic ----------------------------- *)
Min(a, b) == IF a < b THEN a ELSE b

\* Saturating::saturating_add on Balance
saturating_add(a, b) == Min(a + b, MaxBalance)

\* `=` where the code has `+=`
add_assign_overwrite(a, b) == b

\* the sum cut down to a narrower integer
add_assign_narrow(a, b) == (a + b) % 4

\* `+=` on Balance: wraps on overflow in a release build
add_assign(a, b) == (a + b) % (MaxBalance + 1)

\* the counter written back without the increment
next_index_same(index) == index

\* `index + 1` on FundIndex; the cap MaxFunds keeps it far from u32::MAX
next_index(index) == index + 1

(* ------------------------------ Currency ------------------------------ *)
\* a withdraw whose failure is swallowed: an empty imbalance, no error
Currency_withdraw_unchecked(bal, who, value) ==
    IF bal[who] < value
    THEN [ok |-> TRUE, err |-> "Ok", balances |-> bal, imbalance |-> 0]
    ELSE [ok |-> TRUE, err |-> "Ok",
          balances |-> [bal EXCEPT ![who] = @ - value], imbalance |-> value]

\* Currency::withdraw(who, value, TRANSFER, AllowDeath): all or nothing
Currency_withdraw(bal, who, value) ==
    IF bal[who] < value
    THEN [ok |-> FALSE, err |-> "InsufficientBalance", balances |-> bal, imbalance |-> 0]
    ELSE [ok |-> TRUE, err |-> "Ok",
          balances |-> [bal EXCEPT ![who] = @ - value], imbalance |-> value]

\* the imbalance dropped instead of resolved: nothing is credited
Currency_resolve_creating_dropped(bal, who, imbalance) == bal

\* Currency::resolve_creating(who, imbalance): credits the imbalance
Currency_resolve_creating(bal, who, imbalance) ==
    [bal EXCEPT ![who] = @ + imbalance]

\* a transfer whose failure is swallowed: nothing moves, no error
Currency_transfer_unchecked(bal, source, dest, value) ==
    IF bal[source] < value \/ source = dest \/ bal[dest] + value > MaxBalance
    THEN [ok |-> TRUE, err |-> "Ok", balances |-> bal]
    ELSE [ok |-> TRUE, err |-> "Ok",
          balances |-> [bal EXCEPT ![source] = @ - value, ![dest] = @ + value]]

\* Currency::transfer(source, dest, value, AllowDeath): all or nothing
Currency_transfer(bal, source, dest, value) ==
    IF bal[source] < value
    THEN [ok |-> FALSE, err |-> "InsufficientBalance", balances |-> bal]
    ELSE IF source # dest /\ bal[dest] + value > MaxBalance
    THEN [ok |-> FALSE, err |-> "Overflow", balances |-> bal]
    ELSE IF source = dest
    THEN [ok |-> TRUE, err |-> "Ok", balances |-> bal]
    ELSE [ok |-> TRUE, err |-> "Ok",
          balances |-> [bal EXCEPT ![source] = @ - value, ![dest] = @ + value]]

(* ------------------------- origin and registry ------------------------ *)
\* an origin check that lets every origin through, as the first signer
ensure_signed_any(origin) ==
    IF origin.kind = "Signed"
    THEN [ok |-> TRUE, who |-> origin.who]
    ELSE [ok |-> TRUE, who |-> <<"user", 1>>]

\* ensure_signed(origin)
ensure_signed(origin) ==
    IF origin.kind = "Signed"
    THEN [ok |-> TRUE, who |-> origin.who]
    ELSE [ok |-> FALSE, who |-> origin.who]

\* FundInfo::default()
DefaultFund == [beneficiary |-> <<"user", 0>>, deposit |-> 0, raised |-> 0,
                end |-> 0, goal |-> 0]

\* a FundInfo that starts with the deposit counted as raised
NewFund_raised_deposit(beneficiary, deposit, end, goal) ==
    [beneficiary |-> beneficiary, deposit |-> deposit, raised |-> deposit,
     end |-> end, goal |-> goal]

\* the FundInfo create builds
NewFund(beneficiary, deposit, end, goal) ==
    [beneficiary |-> beneficiary, deposit |-> deposit, raised |-> 0,
     end |-> end, goal |-> goal]

\* a ValueQuery lookup: an absent fund reads as the default FundInfo
funds_get_or_default(f, index) ==
    IF index \in DOMAIN f
    THEN [some |-> TRUE, fund |-> f[index]]
    ELSE [some |-> TRUE, fund |-> DefaultFund]

\* Self::funds(index): Option<FundInfo>
funds_get(f, index) ==
    IF index \in DOMAIN f
    THEN [some |-> TRUE, fund |-> f[index]]
    ELSE [some |-> FALSE, fund |-> DefaultFund]

\* Funds::insert(index, fund)
funds_insert(f, index, fund) ==
    [j \in DOMAIN f \cup {index} |-> IF j = index THEN fund ELSE f[j]]

(* ------------------------- Contribution Ledger ------------------------ *)
\* the child trie of a fund: hash of "crowdfnd" ++ index.to_le_bytes()
id_from_index(index) == <<"crowdfnd", index>>

\* the bytes child::put stores for a balance: little-endian, fixed width
Encode(balance) == <<balance % 256, (balance \div 256) % 256>>

\* what child::get_or_default makes of stored bytes: the balance, or the
\* default when they do not decode
Decode(bytes) ==
    IF Len(bytes) = 2 THEN bytes[1] + 256 * bytes[2] ELSE 0

\* a lookup that reads the trie of fund 0 whatever the fund
contribution_get_shared(c, index, who) ==
    IF <<id_from_index(0), who>> \in DOMAIN c
    THEN Decode(c[<<id_from_index(0), who>>])
    ELSE 0

\* child::get_or_default
contribution_get(c, index, who) ==
    IF <<id_from_index(index), who>> \in DOMAIN c
    THEN Decode(c[<<id_from_index(index), who>>])
    ELSE 0

\* a put that ignores the fund and writes into the trie of fund 0
contribution_put_shared(c, index, who, balance) ==
    [k \in DOMAIN c \cup {<<id_from_index(0), who>>} |->
        IF k = <<id_from_index(0), who>> THEN Encode(balance) ELSE c[k]]

\* child::put
contribution_put(c, index, who, balance) ==
    [k \in DOMAIN c \cup {<<id_from_index(index), who>>} |->
        IF k = <<id_from_index(index), who>> THEN Encode(balance) ELSE c[k]]

\* a kill that removes nothing
contribution_kill_nothing(c, index, who) == c

\* child::kill
contribution_kill(c, index, who) ==
    [k \in DOMAIN c \ {<<id_from_index(index), who>>} |-> c[k]]

\* a teardown that wipes the tries of all funds
crowdfund_kill_everything(c, index) == << >>

\* child::kill_storage(id, None)
crowdfund_kill(c, index) ==
    [k \in {k2 \in DOMAIN c : k2[1] # id_from_index(index)} |-> c[k]]

(* ------------------------------ calls --------------------------------- *)
\* `>=` where the code has `>`
end_not_before_now(end, n) == end >= n

\* ensure!(end > now, EndTooEarly)
end_after_now(end, n) == end > n

\* `>` where the code has `>=`
contribution_larger_than_min(value) == value > MinContribution

\* ensure!(value >= MinContribution, ContributionTooSmall)
contribution_large_enough(value) == value >= MinContribution

\* `>=` where the code has `>`
contribution_period_open_at_end(fund, n) == fund.end >= n

\* ensure!(fund.end > now, ContributionPeriodOver)
contribution_period_open(fund, n) == fund.end > n

create(origin, beneficiary, goal, end) ==
    LET signed  == ensure_signed(origin)
        creator == signed.who
        deposit == SubmissionDeposit
        imb     == Currency_withdraw(balances, creator, deposit)
        index   == fund_count
    IN  /\ fund_count < MaxFunds
        /\ called' = "create"
        /\ UNCHANGED now
        /\ IF ~signed.ok
           THEN result' = "BadOrigin" /\ UNCHANGED storage
           ELSE IF ~end_after_now(end, now)
           THEN result' = "EndTooEarly" /\ UNCHANGED storage
           ELSE IF ~imb.ok
           THEN /\ result' = imb.err
                /\ balances' = imb.balances
                /\ UNCHANGED <<funds, fund_count, contributions, events>>
           ELSE /\ fund_count' = next_index(index)
                /\ balances' = Currency_resolve_creating(imb.balances,
                                   fund_account_id(index), imb.imbalance)
                /\ funds' = funds_insert(funds, index,
                                NewFund(beneficiary, deposit, end, goal))
                /\ events' = Append(events, <<"Created", index, now>>)
                /\ result' = "Ok"
                /\ UNCHANGED contributions

\* contribute with the fund looked up, and its period checked, before the
\* value is compared with MinContribution
contribute_fund_first(origin, index, value) ==
    LET signed == ensure_signed(origin)
        who    == signed.who
        got    == funds_get(funds, index)
        fund   == got.fund
        xfer   == Currency_transfer(balances, who, fund_account_id(index), value)
        raised == add_assign(fund.raised, value)
        balance == saturating_add(contribution_get(contributions, index, who), value)
    IN  /\ called' = "contribute"
        /\ UNCHANGED now
        /\ IF ~signed.ok
           THEN result' = "BadOrigin" /\ UNCHANGED storage
           ELSE IF ~got.some
           THEN result' = "InvalidIndex" /\ UNCHANGED storage
           ELSE IF ~contribution_period_open(fund, now)
           THEN result' = "ContributionPeriodOver" /\ UNCHANGED storage
           ELSE IF ~contribution_large_enough(value)
           THEN result' = "ContributionTooSmall" /\ UNCHANGED storage
           ELSE IF ~xfer.ok
           THEN /\ result' = xfer.err
                /\ balances' = xfer.balances
                /\ UNCHANGED <<funds, fund_count, contributions, events>>
           ELSE /\ balances' = xfer.balances
                /\ funds' = funds_insert(funds, index, [fund EXCEPT !.raised = raised])
                /\ contributions' = contribution_put(contributions, index, who, balance)
                /\ events' = Append(events, <<"Contributed", who, index, balance, now>>)
                /\ result' = "Ok"
                /\ UNCHANGED fund_count

contribute(origin, index, value) ==
    LET signed == ensure_signed(origin)
        who    == signed.who
        got    == funds_get(funds, index)
        fund   == got.fund
        xfer   == Currency_transfer(balances, who, fund_account_id(index), value)
        raised == add_assign(fund.raised, value)
        balance == saturating_add(contribution_get(contributions, index, who), value)
    IN  /\ called' = "contribute"
        /\ UNCHANGED now
        /\ IF ~signed.ok
           THEN result' = "BadOrigin" /\ UNCHANGED storage
           ELSE IF ~contribution_large_enough(value)
           THEN result' = "ContributionTooSmall" /\ UNCHANGED storage
           ELSE IF ~got.some
           THEN result' = "InvalidIndex" /\ UNCHANGED storage
           ELSE IF ~contribution_period_open(fund, now)
           THEN result' = "ContributionPeriodOver" /\ UNCHANGED storage
           ELSE IF ~xfer.ok
           THEN /\ result' = xfer.err
                /\ balances' = xfer.balances
                /\ UNCHANGED <<funds, fund_count, contributions, events>>
           ELSE /\ balances' = xfer.balances
                /\ funds' = funds_insert(funds, index, [fund EXCEPT !.raised = raised])
                /\ contributions' = contribution_put(contributions, index, who, balance)
                /\ events' = Append(events, <<"Contributed", who, index, balance, now>>)
                /\ result' = "Ok"
                /\ UNCHANGED fund_count

\* the chain moves to the next block; frame_system starts it with no events
next_block ==
    /\ now < MaxBlock
    /\ now' = now + 1
    /\ events' = << >>
    /\ called' = "None"
    /\ result' = "None"
    /\ UNCHANGED <<balances, funds, fund_count, contributions>>

Create == \E origin \in Origins, beneficiary \in Beneficiaries, goal \in Goals, end \in 0..MaxEnd :
              create(origin, beneficiary, goal, end)

Contribute == \E origin \in Origins, index \in FundIndex, value \in Values :
                  contribute(origin, index, value)

Init ==
    /\ now = 0
    /\ balances = [a \in AccountIds |-> IF a \in Users THEN GenesisBalance ELSE 0]
    /\ funds = << >>
    /\ fund_count = 0
    /\ contributions = << >>
    /\ events = << >>
    /\ called = "None"
    /\ result = "None"

Next == Create \/ Contribute \/ next_block

Spec == Init /\ [][Next]_vars

(* --------------------------- shared notions --------------------------- *)
RECURSIVE SumOver(_, _)
\* the sum of the balances c holds under the keys ks
SumOver(c, ks) ==
    IF ks = {} THEN 0
    ELSE LET k == CHOOSE k2 \in ks : TRUE IN Decode(c[k]) + SumOver(c, ks \ {k})

\* the sum of every balance in the child trie of fund `index`
LedgerSum(c, index) ==
    SumOver(c, {k \in DOMAIN c : k[1] = id_from_index(index)})

\* the contributors that hold a nonzero balance in fund `index`
Contributors(c, index) == {u \in Users : contribution_get(c, index, u) > 0}

Signed(origin) == origin.kind = "Signed"

(* ------------------------------- C1 ----------------------------------- *)
\* C1: for every fund that has a record, record.raised equals the sum of the
\* balances in that fund's Contribution Ledger, after any sequence of create
\* and contribute calls.
C1_RaisedEqualsLedgerSum ==
    \A i \in DOMAIN funds : funds[i].raised = LedgerSum(contributions, i)

\* two funds, the later one with two contributors
C1_Witness ==
    /\ fund_count = 2
    /\ Cardinality(Contributors(contributions, 1)) = 2
    /\ funds[1].raised = 2 * MinContribution

(* ------------------------------- C2 ----------------------------------- *)
\* C2: for every fund that has a record, the balance of the Fund Account
\* derived from its index equals record.deposit + record.raised.
C2_FundAccountHoldsDepositPlusRaised ==
    \A i \in DOMAIN funds :
        balances[fund_account_id(i)] = funds[i].deposit + funds[i].raised

\* two funds that both raised something
C2_Witness ==
    /\ fund_count = 2
    /\ funds[0].raised > 0
    /\ funds[1].raised > 0
    /\ balances[fund_account_id(1)] > SubmissionDeposit

(* ------------------------------- C3 ----------------------------------- *)
\* a step that deposits a Created event: a successful create
CreatedStep ==
    /\ Len(events') = Len(events) + 1
    /\ events'[Len(events')][1] = "Created"

\* C3: fund indices start at zero, are dense, strictly increasing and never
\* reused: FundCount starts at 0, the funds are exactly the indices below
\* FundCount, and every successful create takes the index FundCount, which no
\* fund holds, and raises FundCount by one; so the k-th gets index k-1.
C3_IndicesDenseIncreasing ==
    /\ fund_count = 0 /\ DOMAIN funds = {}
    /\ [][ /\ DOMAIN funds' = 0..(fund_count' - 1)
           /\ fund_count' >= fund_count
           /\ DOMAIN funds \subseteq DOMAIN funds'
           /\ CreatedStep =>
                /\ events'[Len(events')] = <<"Created", fund_count, now>>
                /\ fund_count \notin DOMAIN funds
                /\ DOMAIN funds' = DOMAIN funds \cup {fund_count}
                /\ fund_count' = fund_count + 1
                /\ \A j \in DOMAIN funds : funds'[j] = funds[j] ]_vars

\* the second successful create: it was handed index 1
C3_Witness ==
    /\ called = "create" /\ result = "Ok"
    /\ events # << >>
    /\ events[Len(events)][1] = "Created"
    /\ events[Len(events)][2] = 1
    /\ DOMAIN funds = {0, 1}

(* ------------------------------- C4 ----------------------------------- *)
\* C4: a create whose withdrawal of SubmissionDeposit fails for lack of
\* balance fails with the Currency's error and leaves FundCount, Funds, every
\* account balance, the ledger and the events as they were.
C4_CreateAllOrNothing ==
    [][ \A origin \in Origins, beneficiary \in Beneficiaries, goal \in Goals, end \in 0..MaxEnd :
          ( /\ called' = "create"
            /\ Signed(origin)
            /\ end > now
            /\ balances[origin.who] < SubmissionDeposit
            /\ create(origin, beneficiary, goal, end) )
          => ( /\ result' = "InsufficientBalance"
               /\ fund_count' = fund_count
               /\ funds' = funds
               /\ balances' = balances
               /\ events' = events
               /\ contributions' = contributions ) ]_vars

\* a create failed on the withdrawal while an index was still to be had
C4_Witness ==
    /\ called = "create"
    /\ result = "InsufficientBalance"
    /\ fund_count = 1
    /\ \E u \in Users : balances[u] < SubmissionDeposit

C6_CreateEffects ==
    [][ \A origin \in Origins, beneficiary \in Beneficiaries, goal \in Goals, end \in 0..MaxEnd :
          ( /\ called' = "create"
            /\ result' = "Ok"
            /\ create(origin, beneficiary, goal, end) )
          => ( /\ Signed(origin)
               /\ balances'[origin.who] = balances[origin.who] - SubmissionDeposit
               /\ balances'[fund_account_id(fund_count)]
                    = balances[fund_account_id(fund_count)] + SubmissionDeposit
               /\ \A a \in AccountIds \ {origin.who, fund_account_id(fund_count)} :
                      balances'[a] = balances[a]
               /\ fund_count \notin DOMAIN funds
               /\ fund_count \in DOMAIN funds'
               /\ funds'[fund_count] = [beneficiary |-> beneficiary, goal |-> goal,
                                        end |-> end, deposit |-> SubmissionDeposit,
                                        raised |-> 0]
               /\ events' = Append(events, <<"Created", fund_count, now>>) ) ]_vars

\* a create that succeeded after the first block, for a creator other than
\* the beneficiary
C6_Witness ==
    /\ called = "create" /\ result = "Ok"
    /\ now > 0
    /\ events # << >>
    /\ LET e == events[Len(events)]
       IN  /\ e[1] = "Created"
           /\ funds[e[2]].raised = 0
           /\ funds[e[2]].end > now
           /\ balances[fund_account_id(e[2])] = SubmissionDeposit
    /\ \E u \in Users \ Beneficiaries : balances[u] = GenesisBalance - SubmissionDeposit

(* ------------------------------- C7 ----------------------------------- *)
\* C7: a failed call has no side effects; a contribute that passes its own
\* checks and whose transfer fails for lack of balance returns the Currency's
\* error and leaves raised, the ledger, every balance, FundCount and the events
\* as they were.
C7_FailedContributeNoEffect ==
    [][ /\ (called' # "None" /\ result' # "Ok") =>
               /\ balances' = balances
               /\ funds' = funds
               /\ fund_count' = fund_count
               /\ contributions' = contributions
               /\ events' = events
        /\ \A origin \in Origins, index \in FundIndex, value \in Values :
             ( /\ called' = "contribute"
               /\ Signed(origin)
               /\ value >= MinContribution
               /\ index \in DOMAIN funds
               /\ now < funds[index].end
               /\ balances[origin.who] < value
               /\ contribute(origin, index, value) )
             => ( /\ result' = "InsufficientBalance"
                  /\ balances' = balances
                  /\ funds' = funds
                  /\ fund_count' = fund_count
                  /\ contributions' = contributions
                  /\ events' = events ) ]_vars

\* a contribute failed in the transfer: a fund is open and some caller holds
\* less than the largest value
C7_Witness ==
    /\ called = "contribute"
    /\ result = "InsufficientBalance"
    /\ \E i \in DOMAIN funds : now < funds[i].end
    /\ \E u \in Users : balances[u] < MinContribution + 1

(* ------------------------------- C8 ----------------------------------- *)
\* C8: a contribute with value < MinContribution fails with
\* ContributionTooSmall and changes nothing; a value equal to MinContribution
\* (or larger) is never rejected as too small.
C8_TooSmallRejected ==
    [][ \A origin \in Origins, index \in FundIndex, value \in Values :
          ( /\ called' = "contribute"
            /\ Signed(origin)
            /\ contribute(origin, index, value) )
          => ( /\ value < MinContribution =>
                     /\ result' = "ContributionTooSmall"
                     /\ balances' = balances
                     /\ funds' = funds
                     /\ fund_count' = fund_count
                     /\ contributions' = contributions
                     /\ events' = events
               /\ value >= MinContribution => result' # "ContributionTooSmall"
               /\ ( /\ value = MinContribution
                    /\ index \in DOMAIN funds
                    /\ now < funds[index].end
                    /\ balances[origin.who] >= value ) => result' = "Ok" ) ]_vars

\* a contribute was rejected as too small although a fund was open and every
\* caller could have paid
C8_Witness ==
    /\ called = "contribute"
    /\ result = "ContributionTooSmall"
    /\ \E i \in DOMAIN funds : now < funds[i].end
    /\ \A u \in Users : balances[u] >= MinContribution

C11_EndTooEarlyRejected ==
    [][ /\ \A origin \in Origins, beneficiary \in Beneficiaries, goal \in Goals, end \in 0..MaxEnd :
             ( /\ called' = "create"
               /\ Signed(origin)
               /\ end <= now
               /\ create(origin, beneficiary, goal, end) )
             => ( /\ result' = "EndTooEarly"
                  /\ balances' = balances
                  /\ fund_count' = fund_count
                  /\ funds' = funds
                  /\ contributions' = contributions
                  /\ events' = events )
        /\ \A index \in DOMAIN funds' \ DOMAIN funds : funds'[index].end > now ]_vars

\* a create was rejected as ending too early, after the first block, although
\* an index was free and every caller could have paid the deposit
C11_Witness ==
    /\ called = "create"
    /\ result = "EndTooEarly"
    /\ now > 0
    /\ fund_count < MaxFunds
    /\ \A u \in Users : balances[u] >= SubmissionDeposit

C13_BadOriginRejected ==
    [][ /\ \A origin \in Origins, beneficiary \in Beneficiaries, goal \in Goals, end \in 0..MaxEnd :
             ( /\ called' = "create"
               /\ ~Signed(origin)
               /\ create(origin, beneficiary, goal, end) )
             => ( /\ result' = "BadOrigin"
                  /\ balances' = balances
                  /\ fund_count' = fund_count
                  /\ funds' = funds
                  /\ contributions' = contributions
                  /\ events' = events )
        /\ \A origin \in Origins, index \in FundIndex, value \in Values :
             ( /\ called' = "contribute"
               /\ ~Signed(origin)
               /\ contribute(origin, index, value) )
             => ( /\ result' = "BadOrigin"
                  /\ balances' = balances
                  /\ fund_count' = fund_count
                  /\ funds' = funds
                  /\ contributions' = contributions
                  /\ events' = events ) ]_vars

\* a contribute was rejected for its origin while a fund was open
C13_Witness ==
    /\ called = "contribute"
    /\ result = "BadOrigin"
    /\ \E i \in DOMAIN funds : now < funds[i].end

\* a create was rejected for its origin although an index was free
C13_WitnessCreate ==
    /\ called = "create"
    /\ result = "BadOrigin"
    /\ fund_count < MaxFunds

(* ------------------------------- C14 ---------------------------------- *)
\* what the withdrawal of `who` from fund `index` is to do to the state
WithdrewStep(index, who) ==
    LET balance == contribution_get(contributions, index, who)
    IN  /\ result' = "Ok"
        /\ balances' = [balances EXCEPT ![fund_account_id(index)] = @ - balance,
                                        ![who] = @ + balance]
        /\ contributions' = contribution_kill(contributions, index, who)
        /\ index \in DOMAIN funds'
        /\ funds'[index].raised = funds[index].raised - balance
        /\ events' = Append(events, <<"Withdrew", who, index, balance, now>>)

\* C14: a contributor with a nonzero ledger balance in a fund that ended
\* without reaching its goal (now >= end, raised < goal, record present) can
\* withdraw: a call is there to be dispatched that gets exactly that balance
\* back from the Fund Account, removes the ledger entry, lowers raised by the
\* same amount and deposits Withdrew.
C14_ContributorCanWithdraw ==
    \A index \in DOMAIN funds, who \in Users :
        ( /\ now >= funds[index].end
          /\ funds[index].raised < funds[index].goal
          /\ contribution_get(contributions, index, who) > 0 )
        => ENABLED (Next /\ WithdrewStep(index, who))

(* ------------------------------- C15 ---------------------------------- *)
\* what dispensing fund `index` is to do to the state
DispensedStep(index) ==
    LET pot == fund_account_id(index)
    IN  /\ result' = "Ok"
        /\ balances' = [balances EXCEPT ![pot] = 0,
                                        ![funds[index].beneficiary] = @ + balances[pot]]
        /\ index \notin DOMAIN funds'
        /\ \E caller \in Users :
               events' = Append(events, <<"Dispensed", index, now, caller>>)

\* C15: for a fund with raised >= goal at now >= end, dispense is there to be
\* dispatched: it moves the whole balance of the Fund Account to the
\* beneficiary of the record, removes the record and deposits Dispensed.
C15_SuccessfulFundDispensed ==
    \A index \in DOMAIN funds :
        ( /\ now >= funds[index].end
          /\ funds[index].raised >= funds[index].goal )
        => ENABLED (Next /\ DispensedStep(index))

(* ------------------------------- C16 ---------------------------------- *)
\* what dissolving fund `index` is to do to the state
DissolvedStep(index) ==
    /\ result' = "Ok"
    /\ \E a \in Users : balances'[a] = balances[a] + funds[index].deposit
    /\ index \notin DOMAIN funds'
    /\ contributions' = crowdfund_kill(contributions, index)
    /\ \E caller \in Users :
           events' = Append(events, <<"Dissolved", index, now, caller>>)

\* C16: for a fund with raised < goal at now >= end + RetirementPeriod,
\* dissolve is there to be dispatched: it refunds the deposit, removes the
\* record and every ledger entry of the fund and deposits Dissolved.
C16_RetiredFundDissolved ==
    \A index \in DOMAIN funds :
        ( /\ now >= funds[index].end + RetirementPeriod
          /\ funds[index].raised < funds[index].goal )
        => ENABLED (Next /\ DissolvedStep(index))

(* ------------------- the Contribution Ledger by itself ----------------- *)
\* the funds whose tries the helpers are applied to
LedgerFunds == {0, 1, 2}

\* balances a put is given: zero, a usual one and the largest
LedgerBalances == {0, MinContribution, MaxBalance}

\* contribution_put(index, who, balance)
ledger_put(index, who, balance) ==
    /\ contributions' = contribution_put(contributions, index, who, balance)
    /\ called' = "contribution_put"
    /\ result' = "Ok"
    /\ UNCHANGED <<now, balances, funds, fund_count, events>>

\* contribution_kill(index, who)
ledger_kill(index, who) ==
    /\ contributions' = contribution_kill(contributions, index, who)
    /\ called' = "contribution_kill"
    /\ result' = "Ok"
    /\ UNCHANGED <<now, balances, funds, fund_count, events>>

\* crowdfund_kill(index)
ledger_kill_all(index) ==
    /\ contributions' = crowdfund_kill(contributions, index)
    /\ called' = "crowdfund_kill"
    /\ result' = "Ok"
    /\ UNCHANGED <<now, balances, funds, fund_count, events>>

LedgerPut == \E index \in LedgerFunds, who \in Users, balance \in LedgerBalances :
                 ledger_put(index, who, balance)

LedgerKill == \E index \in LedgerFunds, who \in Users : ledger_kill(index, who)

LedgerKillAll == \E index \in LedgerFunds : ledger_kill_all(index)

LedgerNext == LedgerPut \/ LedgerKill \/ LedgerKillAll

\* the helpers of the ledger applied in any order, from the empty ledger
LedgerSpec == Init /\ [][LedgerNext]_vars

(* ------------------------------- C17 ---------------------------------- *)
\* C17: contribution_get(index, who) after contribution_put(index, who, b)
\* returns b, and goes on returning it until a put or a kill that covers the
\* same (index, who); for a pair never written, or killed, it returns zero.
C17_LedgerRoundTrip ==
    /\ \A index \in LedgerFunds, who \in Users :
           contribution_get(contributions, index, who) = 0
    /\ [][ /\ \A index \in LedgerFunds, who \in Users, balance \in LedgerBalances :
                ( called' = "contribution_put" /\ ledger_put(index, who, balance) )
                => contribution_get(contributions', index, who) = balance
           /\ \A index \in LedgerFunds, who \in Users :
                ( called' = "contribution_kill" /\ ledger_kill(index, who) )
                => contribution_get(contributions', index, who) = 0
           /\ \A index \in LedgerFunds, who \in Users :
                contribution_get(contributions', index, who)
                    # contribution_get(contributions, index, who)
                => \/ \E balance \in LedgerBalances : ledger_put(index, who, balance)
                   \/ ledger_kill(index, who)
                   \/ ledger_kill_all(index) ]_vars

\* a pair that held the largest balance was killed and reads zero again, next
\* to a pair that still holds what was put
C17_Witness ==
    /\ called = "contribution_kill"
    /\ <<id_from_index(1), <<"user", 1>>>> \notin DOMAIN contributions
    /\ contribution_get(contributions, 1, <<"user", 1>>) = 0
    /\ contribution_get(contributions, 1, <<"user", 2>>) = MaxBalance
    /\ contribution_get(contributions, 0, <<"user", 1>>) = MinContribution

(* ------------------------------- C18 ---------------------------------- *)
\* C18: crowdfund_kill(index) leaves no entry of that fund (every
\* contribution_get(index, who) returns zero) and leaves the entries of every
\* other fund as they were; contribution_put and contribution_kill on
\* (index, who) leave every other pair as it was.
C18_LedgerIsolatedPerFund ==
    [][ /\ \A index \in LedgerFunds :
             ( called' = "crowdfund_kill" /\ ledger_kill_all(index) )
             => ( /\ \A who \in Users :
                        /\ contribution_get(contributions', index, who) = 0
                        /\ <<id_from_index(index), who>> \notin DOMAIN contributions'
                  /\ \A other \in LedgerFunds \ {index}, who \in Users :
                        /\ contribution_get(contributions', other, who)
                             = contribution_get(contributions, other, who)
                        /\ <<id_from_index(other), who>> \in DOMAIN contributions'
                             <=> <<id_from_index(other), who>> \in DOMAIN contributions )
        /\ \A index \in LedgerFunds, who \in Users :
             ( \/ called' = "contribution_kill" /\ ledger_kill(index, who)
               \/ called' = "contribution_put" /\
                    \E balance \in LedgerBalances : ledger_put(index, who, balance) )
             => \A other \in LedgerFunds, whom \in Users :
                    <<other, whom>> # <<index, who>> =>
                        /\ contribution_get(contributions', other, whom)
                             = contribution_get(contributions, other, whom)
                        /\ <<id_from_index(other), whom>> \in DOMAIN contributions'
                             <=> <<id_from_index(other), whom>> \in DOMAIN contributions ]_vars

\* a fund with two entries was wiped while another fund kept its two entries
C18_Witness ==
    /\ called = "crowdfund_kill"
    /\ \A who \in Users : <<id_from_index(0), who>> \notin DOMAIN contributions
    /\ contribution_get(contributions, 1, <<"user", 1>>) = MinContribution
    /\ contribution_get(contributions, 1, <<"user", 2>>) = MaxBalance

(* ------------------------------- C19 ---------------------------------- *)
RECURSIVE TotalOver(_, _)
\* the sum of the free balances of the accounts as
TotalOver(bal, as) ==
    IF as = {} THEN 0
    ELSE LET a == CHOOSE a2 \in as : TRUE IN bal[a] + TotalOver(bal, as \ {a})

\* the sum of the free balances of all accounts, Fund Accounts included
TotalBalance(bal) == TotalOver(bal, AccountIds)

\* C19: the sum of all account balances is what it was at genesis, after any
\* sequence of create and contribute calls; a step that changes balances is a
\* successful call that moves a positive amount from one signer to one Fund
\* Account and changes no other balance.
C19_ValueConserved ==
    /\ TotalBalance(balances) = Cardinality(Users) * GenesisBalance
    /\ [][ /\ TotalBalance(balances') = TotalBalance(balances)
           /\ balances' # balances =>
                /\ result' = "Ok"
                /\ \E u \in Users, i \in FundIndex, v \in 1..MaxBalance :
                       /\ balances[u] >= v
                       /\ balances' = [balances EXCEPT ![u] = @ - v,
                                                       ![fund_account_id(i)] = @ + v] ]_vars

\* both signers paid into two Fund Accounts, by deposits and by contributions
C19_Witness ==
    /\ \A u \in Users : balances[u] < GenesisBalance - SubmissionDeposit
    /\ balances[fund_account_id(0)] > SubmissionDeposit
    /\ balances[fund_account_id(1)] >= SubmissionDeposit
    /\ TotalBalance(balances) = Cardinality(Users) * GenesisBalance

(* ------------------------------- C20 ---------------------------------- *)
\* the first precondition of a signed contribute that does not hold, in the
\* order ContributionTooSmall, InvalidIndex, ContributionPeriodOver, transfer
FirstFailure(who, index, value) ==
    IF value < MinContribution THEN "ContributionTooSmall"
    ELSE IF index \notin DOMAIN funds THEN "InvalidIndex"
    ELSE IF now >= funds[index].end THEN "ContributionPeriodOver"
    ELSE IF balances[who] < value THEN "InsufficientBalance"
    ELSE "Ok"

\* C20: a signed contribute that violates several preconditions reports the
\* first in the order ContributionTooSmall, InvalidIndex,
\* ContributionPeriodOver, transfer failure: a value below MinContribution to
\* a missing or ended fund yields ContributionTooSmall, and a contribution to
\* an ended fund yields ContributionPeriodOver whether the caller can pay or
\* not, never an error of the Currency.
C20_FirstFailureReported ==
    [][ \A origin \in Origins, index \in FundIndex, value \in Values :
          ( /\ called' = "contribute"
            /\ Signed(origin)
            /\ contribute(origin, index, value) )
          => ( /\ result' = FirstFailure(origin.who, index, value)
               /\ ( value < MinContribution
                    /\ (index \notin DOMAIN funds \/ now >= funds[index].end) )
                  => result' = "ContributionTooSmall"
               /\ ( value >= MinContribution
                    /\ index \in DOMAIN funds
                    /\ now >= funds[index].end )
                  => result' = "ContributionPeriodOver" ) ]_vars

\* a contribute was turned away as too late when no signer could have paid
\* even the smallest contribution
C20_Witness ==
    /\ called = "contribute"
    /\ result = "ContributionPeriodOver"
    /\ \A u \in Users : balances[u] < MinContribution

\* a contribute was rejected as too small when no fund existed at all
C20_WitnessTooSmall ==
    /\ called = "contribute"
    /\ result = "ContributionTooSmall"
    /\ fund_count = 0

====
